---- MODULE Spec2Model ----
(***************************************************************************)
(* A model of gtrans (src/gtrans.go, the Gtrans/translate-v2 program text  *)
(* at lines 185-373): one run of the command, from the state after         *)
(* flag.Parse to os.Exit, and a shell pipeline of successive runs.         *)
(*                                                                         *)
(* Go strings are sequences of one-character strings, so that prefix,      *)
(* index, slice and join are computed as the code computes them.           *)
(***************************************************************************)
EXTENDS Naturals, Integers, Sequences, FiniteSets, TLC

VARIABLES
    env,            \* the process environment (os.Getenv: absent reads as "")
    flagTo,         \* the -to flag's value (package variable targetLang)
    doOpenBrowser,  \* the -open flag
    args,           \* flag.Args(): the positional arguments
    stdin,          \* [ok |-> ReadAll succeeds, data |-> its content]
    inputLang,      \* the language the input text is actually written in
    pc,             \* the position of the run in main/Main/runTranslation
    targetLang,     \* Main's parameter targetLang
    text,           \* Main's local text
    rtTargetLang,   \* runTranslation's parameter targetLang
    detectedSourceLang, \* runTranslation's local detectedSourceLang
    translatedText, \* runTranslation's local translatedText
    err,            \* the error Main returns ("" is nil)
    stdout,         \* what the run has written to standard output
    exitCode,       \* the process's exit code (Running before it exits)
    steps,          \* the steps the run has taken, in order, with their outcome
    detectCalls,    \* the calls made to the detection endpoint
    translateCalls, \* the calls made to the translation endpoint
    runNo,          \* the position of the run in a shell pipeline
    finalTargets,   \* pipeline history: per completed run, source and target
    locale,         \* the argument of a call of langCodeFromLocale
    code            \* what that call returned

vars == <<env, flagTo, doOpenBrowser, args, stdin, inputLang, pc, targetLang,
          text, rtTargetLang, detectedSourceLang, translatedText, err, stdout,
          exitCode, steps, detectCalls, translateCalls, runNo, finalTargets,
          locale, code>>

----------------------------------------------------------------------------
\* Bounds of the model.

\* The longest locale string of the exhaustive part of the locale inputs.
MaxLocaleLen == 5
\* The largest number of positional arguments.
MaxArgs == 2
\* The number of runs of a shell pipeline.
MaxRuns == 4

----------------------------------------------------------------------------
\* Strings.

Empty == <<>>
NL == "\n"
Underscore == "_"
Space == " "

en == <<"e", "n">>
EN == <<"E", "N">>
ja == <<"j", "a">>
de == <<"d", "e">>
fr == <<"f", "r">>
zhCN == <<"z", "h", "-", "C", "N">>
zhTW == <<"z", "h", "-", "T", "W">>
zh_CN == <<"z", "h", "_", "C", "N">>
zh_SG == <<"z", "h", "_", "S", "G">>
zh_TW == <<"z", "h", "_", "T", "W">>
zh_HK == <<"z", "h", "_", "H", "K">>
utf8 == <<".", "U", "T", "F", "-", "8">>

\* All sequences over S of length at most n.
SeqsUpTo(S, n) == UNION {[1..k -> S] : k \in 0..n}

\* strings.HasPrefix(s, prefix)
HasPrefix(s, prefix) ==
    /\ Len(s) >= Len(prefix)
    /\ SubSeq(s, 1, Len(prefix)) = prefix

\* strings.Index(s, c) for a one-character c: the 0-based index of the first
\* occurrence, -1 when there is none.
RECURSIVE IndexFrom(_, _, _)
IndexFrom(s, c, i) ==
    IF i > Len(s) THEN -1
    ELSE IF s[i] = c THEN i - 1
    ELSE IndexFrom(s, c, i + 1)

Index(s, c) == IndexFrom(s, c, 1)

\* strings.Join(a, sep) for a one-character sep.
RECURSIVE Join(_, _)
Join(a, sep) ==
    IF Len(a) = 0 THEN Empty
    ELSE IF Len(a) = 1 THEN a[1]
    ELSE a[1] \o <<sep>> \o Join(Tail(a), sep)

\* A plausible slip: every locale without a zh_ special case is returned
\* whole when it has no underscore.
langCodeFromLocaleWhole(l) ==
    IF HasPrefix(l, zh_CN) \/ HasPrefix(l, zh_SG) THEN zhCN
    ELSE IF HasPrefix(l, zh_TW) \/ HasPrefix(l, zh_HK) THEN zhTW
    ELSE LET i == Index(l, Underscore)
         IN IF i = -1 THEN l ELSE SubSeq(l, 1, i)

\* langCodeFromLocale(locale)
langCodeFromLocale(l) ==
    IF HasPrefix(l, zh_CN) \/ HasPrefix(l, zh_SG) THEN zhCN
    ELSE IF HasPrefix(l, zh_TW) \/ HasPrefix(l, zh_HK) THEN zhTW
    ELSE LET i == Index(l, Underscore)
         IN IF i = -1 THEN Empty ELSE SubSeq(l, 1, i)

----------------------------------------------------------------------------
\* The values a run is started with.

apiKey == <<"k">>
en_US_UTF8 == <<"e", "n", "_", "U", "S">> \o utf8
posixC == <<"C">>

\* The values of LANGUAGE, LC_ALL and LANG.
LanguageValues == {Empty, posixC, zh_TW}
LcAllValues == {Empty, posixC, en_US_UTF8}
LangLocaleValues == {Empty, en_US_UTF8, zh_HK \o utf8}
\* The values of the -to flag, GOOGLE_TRANSLATE_LANG, GOOGLE_TRANSLATE_SECOND_LANG.
FlagToValues == {Empty, ja}
LangValues == {Empty, de, en}
SecondLangValues == {Empty, ja, en}
\* The language codes the detection endpoint answers with.
DetectLangs == {en, EN, ja, de}
\* The texts the translation endpoint answers with.
Translations == {<<"o", "k">>, <<"h", "a", "i">>}
\* Positional arguments and the content of standard input.
ArgWords == {Empty, <<"a">>}
StdinValues == {[ok |-> TRUE, data |-> Empty],
                [ok |-> TRUE, data |-> <<"y", "o", NL>>],
                [ok |-> FALSE, data |-> Empty]}

\* Errors (nil is NoErr).
NoErr == ""
ErrCannotDetect ==
    "cannot detect language. Please export $LANG or $GOOGLE_TRANSLATE_LANG (e.g. en, ja)"
ErrNoAPIKey == "GOOGLE_TRANSLATE_API_KEY is not set"
ErrDetect == "fail to call detection API"
ErrTranslate == "fail to call translate API"
ErrRead == "read error"
ErrOpen == "openbrowser error"

\* The exit code of a process that has not exited.
Running == -1

\* fmt.Fprintln(w, translatedText) and main's fmt.Println(err): one write to
\* standard output, the text followed by a newline.
Line(t) == [msg |-> NoErr, chars |-> t \o <<NL>>]
ErrLine(e) == [msg |-> e, chars |-> Empty]

Step(name, ok) == [step |-> name, ok |-> ok]

----------------------------------------------------------------------------
\* Target language resolution.

\* A plausible slip: the locale variables are consulted before
\* GOOGLE_TRANSLATE_LANG, and LANG before LANGUAGE.
RECURSIVE FirstLocaleCodeIn(_)
FirstLocaleCodeIn(names) ==
    IF names = <<>> THEN Empty
    ELSE LET c == langCodeFromLocale(env[Head(names)])
         IN IF c # Empty THEN c ELSE FirstLocaleCodeIn(Tail(names))

detectTargetLangLocaleFirst ==
    LET c == FirstLocaleCodeIn(<<"LANG", "LC_ALL", "LANGUAGE">>)
    IN IF c # Empty THEN [code |-> c, err |-> NoErr]
       ELSE IF env.GOOGLE_TRANSLATE_LANG # Empty
            THEN [code |-> env.GOOGLE_TRANSLATE_LANG, err |-> NoErr]
            ELSE [code |-> Empty, err |-> ErrCannotDetect]

\* The loop of detectTargetLang over the locale variables.
RECURSIVE LocaleLoop(_)
LocaleLoop(names) ==
    IF names = <<>> THEN [code |-> Empty, err |-> ErrCannotDetect]
    ELSE LET c == langCodeFromLocale(env[Head(names)])
         IN IF c # Empty THEN [code |-> c, err |-> NoErr]
            ELSE LocaleLoop(Tail(names))

\* detectTargetLang()
detectTargetLang ==
    IF env.GOOGLE_TRANSLATE_LANG # Empty
    THEN [code |-> env.GOOGLE_TRANSLATE_LANG, err |-> NoErr]
    ELSE LocaleLoop(<<"LANGUAGE", "LC_ALL", "LANG">>)

----------------------------------------------------------------------------
\* The language switch of runTranslation.

Lower(c) == IF c = "E" THEN "e" ELSE IF c = "N" THEN "n" ELSE c
LowerAll(s) == [i \in 1..Len(s) |-> Lower(s[i])]

\* A plausible slip: the codes are compared without regard to case.
SwitchTargetFold(detected, target, sec) ==
    IF LowerAll(detected) = LowerAll(target) THEN sec ELSE target

\* A plausible slip: the target is never switched.
SwitchTargetNever(detected, target, sec) == target

\* if detectedSourceLang == targetLang { targetLang = sec }
SwitchTarget(detected, target, sec) ==
    IF detected = target THEN sec ELSE target

\* A plausible slip: the source language is detected in every run.
NeedsDetectAlways == TRUE

\* if sec := os.Getenv("GOOGLE_TRANSLATE_SECOND_LANG"); sec != ""
NeedsDetect == env.GOOGLE_TRANSLATE_SECOND_LANG # Empty

----------------------------------------------------------------------------
\* One run: main, Main and runTranslation.

\* The state of a process at the call of Main, flags parsed.
Fresh ==
    /\ pc = "Main"
    /\ targetLang = flagTo
    /\ text = Empty
    /\ rtTargetLang = Empty
    /\ detectedSourceLang = Empty
    /\ translatedText = Empty
    /\ err = NoErr
    /\ stdout = <<>>
    /\ exitCode = Running
    /\ steps = <<>>
    /\ detectCalls = <<>>
    /\ translateCalls = <<>>

Init ==
    /\ env \in [GOOGLE_TRANSLATE_API_KEY : {Empty, apiKey},
                GOOGLE_TRANSLATE_LANG : LangValues,
                GOOGLE_TRANSLATE_SECOND_LANG : SecondLangValues,
                LANGUAGE : LanguageValues,
                LC_ALL : LcAllValues,
                LANG : LangLocaleValues]
    /\ flagTo \in FlagToValues
    /\ doOpenBrowser \in BOOLEAN
    /\ args \in SeqsUpTo(ArgWords, MaxArgs)
    /\ stdin \in StdinValues
    /\ inputLang = en
    /\ Fresh
    /\ runNo = 1
    /\ finalTargets = <<>>
    /\ locale = Empty
    /\ code = Empty

\* What a run never changes: its environment, flags, arguments and input.
UNCHANGED_inputs ==
    UNCHANGED <<env, flagTo, doOpenBrowser, args, stdin, inputLang, runNo,
                locale, code>>

\* Main: if targetLang == "" { targetLang, err = detectTargetLang() ... }
ResolveTarget ==
    /\ pc = "Main"
    /\ IF targetLang = Empty
       THEN LET r == detectTargetLang
            IN IF r.err # NoErr
               THEN /\ err' = r.err
                    /\ pc' = "exit"
                    /\ steps' = Append(steps, Step("resolve", FALSE))
                    /\ UNCHANGED targetLang
               ELSE /\ targetLang' = r.code
                    /\ pc' = "readInput"
                    /\ steps' = Append(steps, Step("resolve", TRUE))
                    /\ UNCHANGED err
       ELSE /\ pc' = "readInput"
            /\ steps' = Append(steps, Step("resolve", TRUE))
            /\ UNCHANGED <<targetLang, err>>
    /\ UNCHANGED <<text, rtTargetLang, detectedSourceLang, translatedText,
                   stdout, exitCode, detectCalls, translateCalls, finalTargets>>
    /\ UNCHANGED_inputs

\* A plausible slip: standard input is read only when there are no
\* positional arguments at all.
InputTextByCount ==
    IF Len(args) > 0
    THEN [text |-> Join(args, Space), err |-> NoErr]
    ELSE IF stdin.ok THEN [text |-> stdin.data, err |-> NoErr]
         ELSE [text |-> Empty, err |-> ErrRead]

\* Main: text := strings.Join(flag.Args(), " "); if text == "" { ReadAll(r) }
InputText ==
    LET joined == Join(args, Space)
    IN IF joined = Empty
       THEN IF stdin.ok THEN [text |-> stdin.data, err |-> NoErr]
            ELSE [text |-> Empty, err |-> ErrRead]
       ELSE [text |-> joined, err |-> NoErr]

\* Main: the input text, then the choice of openGoogleTranslate or
\* runTranslation.
ReadInput ==
    /\ pc = "readInput"
    /\ LET r == InputText
       IN IF r.err # NoErr
          THEN /\ err' = r.err
               /\ pc' = "exit"
               /\ steps' = Append(steps, Step("read", FALSE))
               /\ UNCHANGED text
          ELSE /\ text' = r.text
               /\ pc' = IF doOpenBrowser THEN "open" ELSE "runTranslation"
               /\ steps' = Append(steps, Step("read", TRUE))
               /\ UNCHANGED err
    /\ UNCHANGED <<targetLang, rtTargetLang, detectedSourceLang, translatedText,
                   stdout, exitCode, detectCalls, translateCalls, finalTargets>>
    /\ UNCHANGED_inputs

\* openGoogleTranslate: openbrowser.Start(u), which starts the browser or fails.
OpenBrowser ==
    /\ pc = "open"
    /\ \E ok \in BOOLEAN :
        /\ err' = IF ok THEN NoErr ELSE ErrOpen
        /\ steps' = Append(steps, Step("open", ok))
    /\ pc' = "exit"
    /\ UNCHANGED <<targetLang, text, rtTargetLang, detectedSourceLang,
                   translatedText, stdout, exitCode, detectCalls,
                   translateCalls, finalTargets>>
    /\ UNCHANGED_inputs

\* A plausible slip: the key is not checked before the service is used.
APIKeyMissingNever == FALSE

\* runTranslation: if apiKey == ""
APIKeyMissing == env.GOOGLE_TRANSLATE_API_KEY = Empty

\* runTranslation up to the construction of the service (translate.New fails
\* only for a nil client, and oauthClient returns none).
CheckAPIKey ==
    /\ pc = "runTranslation"
    /\ rtTargetLang' = targetLang
    /\ IF APIKeyMissing
       THEN /\ err' = ErrNoAPIKey
            /\ pc' = "exit"
            /\ steps' = Append(steps, Step("apikey", FALSE))
       ELSE /\ pc' = IF NeedsDetect THEN "detect" ELSE "translate"
            /\ steps' = Append(steps, Step("apikey", TRUE))
            /\ UNCHANGED err
    /\ UNCHANGED <<targetLang, text, detectedSourceLang, translatedText,
                   stdout, exitCode, detectCalls, translateCalls, finalTargets>>
    /\ UNCHANGED_inputs

\* gtrans.Detect(text) answers lang; the target is switched on it.
DetectOK(lang) ==
    /\ pc = "detect"
    /\ detectCalls' = Append(detectCalls, text)
    /\ detectedSourceLang' = lang
    /\ rtTargetLang' =
           SwitchTarget(lang, rtTargetLang, env.GOOGLE_TRANSLATE_SECOND_LANG)
    /\ pc' = "translate"
    /\ steps' = Append(steps, Step("detect", TRUE))
    /\ UNCHANGED <<targetLang, text, translatedText, err, stdout, exitCode,
                   translateCalls, finalTargets>>
    /\ UNCHANGED_inputs

\* A plausible slip: a failed detection is dropped and the text is
\* translated into the unswitched target.
DetectFailIgnored ==
    /\ pc = "detect"
    /\ detectCalls' = Append(detectCalls, text)
    /\ pc' = "translate"
    /\ steps' = Append(steps, Step("detect", FALSE))
    /\ UNCHANGED <<targetLang, text, rtTargetLang, detectedSourceLang,
                   translatedText, err, stdout, exitCode, translateCalls,
                   finalTargets>>
    /\ UNCHANGED_inputs

\* gtrans.Detect(text) fails: runTranslation returns the error.
DetectFail ==
    /\ pc = "detect"
    /\ detectCalls' = Append(detectCalls, text)
    /\ err' = ErrDetect
    /\ pc' = "exit"
    /\ steps' = Append(steps, Step("detect", FALSE))
    /\ UNCHANGED <<targetLang, text, rtTargetLang, detectedSourceLang,
                   translatedText, stdout, exitCode, translateCalls,
                   finalTargets>>
    /\ UNCHANGED_inputs

\* gtrans.Translate(text, targetLang) answers out.
TranslateOK(out) ==
    /\ pc = "translate"
    /\ translateCalls' =
           Append(translateCalls, [text |-> text, target |-> rtTargetLang])
    /\ translatedText' = out
    /\ finalTargets' = Append(finalTargets,
           [input |-> inputLang, detected |-> detectedSourceLang,
            target |-> rtTargetLang])
    /\ pc' = "write"
    /\ steps' = Append(steps, Step("translate", TRUE))
    /\ UNCHANGED <<targetLang, text, rtTargetLang, detectedSourceLang, err,
                   stdout, exitCode, detectCalls>>
    /\ UNCHANGED_inputs

\* A plausible slip: a failed translation is tried again.
TranslateFailRetry ==
    /\ pc = "translate"
    /\ Len(steps) < 8
    /\ translateCalls' =
           Append(translateCalls, [text |-> text, target |-> rtTargetLang])
    /\ pc' = "translate"
    /\ steps' = Append(steps, Step("translate", FALSE))
    /\ UNCHANGED <<targetLang, text, rtTargetLang, detectedSourceLang,
                   translatedText, err, stdout, exitCode, detectCalls,
                   finalTargets>>
    /\ UNCHANGED_inputs

\* gtrans.Translate(text, targetLang) fails: runTranslation returns the error.
TranslateFail ==
    /\ pc = "translate"
    /\ translateCalls' =
           Append(translateCalls, [text |-> text, target |-> rtTargetLang])
    /\ err' = ErrTranslate
    /\ pc' = "exit"
    /\ steps' = Append(steps, Step("translate", FALSE))
    /\ UNCHANGED <<targetLang, text, rtTargetLang, detectedSourceLang,
                   translatedText, stdout, exitCode, detectCalls, finalTargets>>
    /\ UNCHANGED_inputs

\* A plausible slip: the input text is written instead of its translation.
WrittenTextInput == text

\* fmt.Fprintln(w, translatedText)
WrittenText == translatedText

\* runTranslation: the translation is written and nil returned.
WriteOutput ==
    /\ pc = "write"
    /\ stdout' = Append(stdout, Line(WrittenText))
    /\ pc' = "exit"
    /\ steps' = Append(steps, Step("write", TRUE))
    /\ UNCHANGED <<targetLang, text, rtTargetLang, detectedSourceLang,
                   translatedText, err, exitCode, detectCalls, translateCalls,
                   finalTargets>>
    /\ UNCHANGED_inputs

\* A plausible slip: the error is printed and the process ends normally.
ExitCodeOfZero(e) == 0

\* main: if err != nil { fmt.Println(err); os.Exit(1) }
ExitCodeOf(e) == IF e # NoErr THEN 1 ELSE 0

\* main, once Main has returned.
Exit ==
    /\ pc = "exit"
    /\ stdout' = IF err # NoErr THEN Append(stdout, ErrLine(err)) ELSE stdout
    /\ exitCode' = ExitCodeOf(err)
    /\ pc' = "done"
    /\ UNCHANGED <<targetLang, text, rtTargetLang, detectedSourceLang,
                   translatedText, err, steps, detectCalls, translateCalls,
                   finalTargets>>
    /\ UNCHANGED_inputs

Next ==
    \/ ResolveTarget
    \/ ReadInput
    \/ OpenBrowser
    \/ CheckAPIKey
    \/ \E lang \in DetectLangs : DetectOK(lang)
    \/ DetectFail
    \/ \E out \in Translations : TranslateOK(out)
    \/ TranslateFail
    \/ WriteOutput
    \/ Exit

Spec == Init /\ [][Next]_vars

----------------------------------------------------------------------------
\* A shell pipeline, gtrans ... | gtrans | gtrans: every run has the same
\* environment and no arguments, and reads what the run before it wrote.
\* The service is the one the usage text assumes: Detect answers the language
\* its input is written in, Translate answers a text in the target language.

PipeLangs == {en, ja, de}
PipeInputLangs == {en, ja, de, fr}

RECURSIVE StdoutChars(_)
StdoutChars(lines) ==
    IF lines = <<>> THEN Empty
    ELSE Head(lines).chars \o StdoutChars(Tail(lines))

PipeInit ==
    /\ \E a \in PipeLangs : \E b \in PipeLangs \ {a} :
         env = [GOOGLE_TRANSLATE_API_KEY |-> apiKey,
                GOOGLE_TRANSLATE_LANG |-> a,
                GOOGLE_TRANSLATE_SECOND_LANG |-> b,
                LANGUAGE |-> Empty,
                LC_ALL |-> Empty,
                LANG |-> en_US_UTF8]
    /\ flagTo = Empty
    /\ doOpenBrowser = FALSE
    /\ args \in SeqsUpTo(ArgWords, MaxArgs)
    /\ stdin \in StdinValues
    /\ inputLang \in PipeInputLangs
    /\ Fresh
    /\ runNo = 1
    /\ finalTargets = <<>>
    /\ locale = Empty
    /\ code = Empty

\* The next run of the pipeline starts on the output of the run that ended.
Pipe ==
    /\ pc = "done"
    /\ exitCode = 0
    /\ translateCalls # <<>>
    /\ runNo < MaxRuns
    /\ runNo' = runNo + 1
    /\ args' = <<>>
    /\ stdin' = [ok |-> TRUE, data |-> StdoutChars(stdout)]
    /\ inputLang' = translateCalls[Len(translateCalls)].target
    /\ pc' = "Main"
    /\ targetLang' = flagTo
    /\ text' = Empty
    /\ rtTargetLang' = Empty
    /\ detectedSourceLang' = Empty
    /\ translatedText' = Empty
    /\ err' = NoErr
    /\ stdout' = <<>>
    /\ exitCode' = Running
    /\ steps' = <<>>
    /\ detectCalls' = <<>>
    /\ translateCalls' = <<>>
    /\ UNCHANGED <<env, flagTo, doOpenBrowser, finalTargets, locale, code>>

PipeNext ==
    \/ ResolveTarget
    \/ ReadInput
    \/ CheckAPIKey
    \/ DetectOK(inputLang)
    \/ \E out \in Translations : TranslateOK(out)
    \/ WriteOutput
    \/ Exit
    \/ Pipe

PipeSpec == PipeInit /\ [][PipeNext]_vars

----------------------------------------------------------------------------
\* langCodeFromLocale on its own: every locale string over LocaleAlphabet up
\* to MaxLocaleLen characters, and the locales of ExtraLocales.

LocaleAlphabet == {"z", "h", "_", "C", "N", "T", "W"}
ExtraLocales ==
    {zh_SG, zh_HK, zh_CN \o utf8, zh_SG \o utf8, zh_TW \o utf8, zh_HK \o utf8,
     en_US_UTF8, <<"f", "r", "_", "F", "R">>, <<"P", "O", "S", "I", "X">>,
     <<"z", "h", "_", "M", "O">>, <<"j", "a", "_", "J", "P", "_", "x">>}
Locales == SeqsUpTo(LocaleAlphabet, MaxLocaleLen) \cup ExtraLocales

LocaleInit ==
    /\ locale \in Locales
    /\ code = Empty
    /\ pc = "locale"
    /\ env = [GOOGLE_TRANSLATE_API_KEY |-> Empty,
              GOOGLE_TRANSLATE_LANG |-> Empty,
              GOOGLE_TRANSLATE_SECOND_LANG |-> Empty,
              LANGUAGE |-> Empty,
              LC_ALL |-> Empty,
              LANG |-> Empty]
    /\ flagTo = Empty
    /\ doOpenBrowser = FALSE
    /\ args = <<>>
    /\ stdin = [ok |-> TRUE, data |-> Empty]
    /\ inputLang = en
    /\ targetLang = Empty
    /\ text = Empty
    /\ rtTargetLang = Empty
    /\ detectedSourceLang = Empty
    /\ translatedText = Empty
    /\ err = NoErr
    /\ stdout = <<>>
    /\ exitCode = Running
    /\ steps = <<>>
    /\ detectCalls = <<>>
    /\ translateCalls = <<>>
    /\ runNo = 1
    /\ finalTargets = <<>>

\* A call of langCodeFromLocale(locale).
ParseLocale ==
    /\ pc = "locale"
    /\ code' = langCodeFromLocale(locale)
    /\ pc' = "parsed"
    /\ UNCHANGED <<env, flagTo, doOpenBrowser, args, stdin, inputLang,
                   targetLang, text, rtTargetLang, detectedSourceLang,
                   translatedText, err, stdout, exitCode, steps, detectCalls,
                   translateCalls, runNo, finalTargets, locale>>

LocaleNext == ParseLocale

LocaleSpec == LocaleInit /\ [][LocaleNext]_vars

----------------------------------------------------------------------------
\* Properties.

secondLang == env.GOOGLE_TRANSLATE_SECOND_LANG

RECURSIVE FirstNonEmpty(_)
FirstNonEmpty(values) ==
    IF values = <<>> THEN Empty
    ELSE IF Head(values) # Empty THEN Head(values)
    ELSE FirstNonEmpty(Tail(values))

TargetCandidates ==
    <<flagTo, env.GOOGLE_TRANSLATE_LANG, langCodeFromLocale(env.LANGUAGE),
      langCodeFromLocale(env.LC_ALL), langCodeFromLocale(env.LANG)>>

\* The run has taken the step named name.
Took(name) == \E i \in 1..Len(steps) : steps[i].step = name
TookOK(name) == \E i \in 1..Len(steps) : steps[i] = Step(name, TRUE)
Failed(name) == \E i \in 1..Len(steps) : steps[i] = Step(name, FALSE)
SomeStepFailed == \E i \in 1..Len(steps) : ~steps[i].ok

\* C1: once the target language is resolved, it is the first non-empty value
\* of [-to, GOOGLE_TRANSLATE_LANG, langCodeFromLocale(LANGUAGE),
\* langCodeFromLocale(LC_ALL), langCodeFromLocale(LANG)], and resolution fails,
\* with the "cannot detect language" error, exactly when all five are empty.
C1_TargetPrecedence ==
    Took("resolve") =>
        LET want == FirstNonEmpty(TargetCandidates)
        IN /\ TookOK("resolve") <=> want # Empty
           /\ TookOK("resolve") => targetLang = want
           /\ Failed("resolve") => err = ErrCannotDetect

C1_Witness ==
    /\ TookOK("resolve")
    /\ flagTo = Empty
    /\ env.GOOGLE_TRANSLATE_LANG = Empty
    /\ env.LANGUAGE = posixC
    /\ env.LC_ALL = Empty
    /\ env.LANG = en_US_UTF8
    /\ targetLang = en

StartsWith(s, p) ==
    /\ Len(s) >= Len(p)
    /\ \A k \in 1..Len(p) : s[k] = p[k]

\* C2: langCodeFromLocale(s) is zh-CN when s starts with zh_CN or zh_SG, zh-TW
\* when s starts with zh_TW or zh_HK, otherwise what precedes the first
\* underscore of s, and empty when s has no underscore.
C2_LocaleCode ==
    pc = "parsed" =>
        IF StartsWith(locale, zh_CN) \/ StartsWith(locale, zh_SG)
        THEN code = zhCN
        ELSE IF StartsWith(locale, zh_TW) \/ StartsWith(locale, zh_HK)
        THEN code = zhTW
        ELSE IF \E i \in 1..Len(locale) : locale[i] = Underscore
        THEN \E i \in 1..Len(locale) :
                /\ locale[i] = Underscore
                /\ \A j \in 1..(i - 1) : locale[j] # Underscore
                /\ Len(code) = i - 1
                /\ \A j \in 1..(i - 1) : code[j] = locale[j]
        ELSE code = Empty

C2_Witness ==
    /\ pc = "parsed"
    /\ locale = <<"h", "_", "z", "h", "_">>
    /\ code = <<"h">>

\* C3: with a second language configured and the source language detected,
\* Translate is asked for the second language when the detected language is,
\* character for character, the resolved target, and for the resolved target
\* otherwise.
C3_SwitchOnExactMatch ==
    secondLang # Empty =>
        /\ pc \in {"translate", "write"} =>
               rtTargetLang = IF detectedSourceLang = targetLang
                              THEN secondLang ELSE targetLang
        /\ \A i \in 1..Len(translateCalls) :
               translateCalls[i].target = IF detectedSourceLang = targetLang
                                          THEN secondLang ELSE targetLang

C3_Witness ==
    /\ secondLang = ja
    /\ targetLang = en
    /\ detectedSourceLang = EN
    /\ Len(translateCalls) = 1
    /\ translateCalls[1].target = en

\* C4: without a second language the detection endpoint is never called and
\* Translate is asked for the resolved target.
C4_NoSecondNoDetect ==
    secondLang = Empty =>
        /\ detectCalls = <<>>
        /\ ~Took("detect")
        /\ \A i \in 1..Len(translateCalls) :
               translateCalls[i].target = targetLang

C4_Witness ==
    /\ secondLang = Empty
    /\ pc = "done"
    /\ exitCode = 0
    /\ Len(translateCalls) = 1
    /\ translateCalls[1].target = de

\* C5: a failed detection ends the run: Translate is not called, no translation
\* is written, and the detection error is what the run returns and prints.
C5_DetectFailureAborts ==
    Failed("detect") =>
        /\ translateCalls = <<>>
        /\ ~Took("translate")
        /\ \A i \in 1..Len(stdout) : stdout[i].msg # NoErr
        /\ err = ErrDetect
        /\ pc \in {"exit", "done"}
        /\ pc = "done" => (exitCode = 1 /\ stdout = <<ErrLine(ErrDetect)>>)

C5_Witness ==
    /\ Failed("detect")
    /\ pc = "done"
    /\ targetLang = en
    /\ secondLang = ja

NoNetworkCall == detectCalls = <<>> /\ translateCalls = <<>>

\* C6 as stated: every run without an API key ends with exit code 1 and the
\* message that names GOOGLE_TRANSLATE_API_KEY, no network call made.
C6_Original ==
    (env.GOOGLE_TRANSLATE_API_KEY = Empty /\ pc = "done") =>
        /\ exitCode = 1
        /\ stdout = <<ErrLine(ErrNoAPIKey)>>
        /\ NoNetworkCall

\* C6, amended: a run without an API key makes no network call, and when it
\* is not given -open, resolves its target and reads its input, it ends with
\* exit code 1 and the message that names GOOGLE_TRANSLATE_API_KEY.
C6_MissingKey ==
    env.GOOGLE_TRANSLATE_API_KEY = Empty =>
        /\ NoNetworkCall
        /\ (pc = "done" /\ ~doOpenBrowser /\ TookOK("resolve") /\ TookOK("read")) =>
               /\ exitCode = 1
               /\ stdout = <<ErrLine(ErrNoAPIKey)>>

C6_Witness ==
    /\ env.GOOGLE_TRANSLATE_API_KEY = Empty
    /\ pc = "done"
    /\ exitCode = 1
    /\ stdout = <<ErrLine(ErrNoAPIKey)>>
    /\ secondLang = ja

EndsInSuccess(written) ==
    /\ exitCode = 0
    /\ ~SomeStepFailed
    /\ err = NoErr
    /\ stdout = written

EndsInFailure ==
    /\ exitCode = 1
    /\ SomeStepFailed
    /\ err # NoErr
    /\ stdout = <<ErrLine(err)>>

\* C7 as stated: a run ends with exit code 0, no step failed and the
\* translation and a newline written, or with exit code 1, a step failed, the
\* error printed and no translation written.
C7_Original ==
    pc = "done" =>
        \/ TookOK("translate") /\ EndsInSuccess(<<Line(translatedText)>>)
        \/ EndsInFailure

\* C7, amended: the same of every run without -open; a run with -open in which
\* no step failed ends with exit code 0 and nothing written.
C7_Outcomes ==
    pc = "done" =>
        \/ /\ ~doOpenBrowser
           /\ TookOK("translate")
           /\ EndsInSuccess(<<Line(translatedText)>>)
        \/ /\ doOpenBrowser
           /\ TookOK("open")
           /\ EndsInSuccess(<<>>)
        \/ EndsInFailure

C7_Witness ==
    /\ pc = "done"
    /\ ~doOpenBrowser
    /\ exitCode = 0
    /\ stdout = <<Line(<<"h", "a", "i">>)>>

\* C8: in a pipeline with GOOGLE_TRANSLATE_LANG = A, GOOGLE_TRANSLATE_SECOND_LANG
\* = B, no run translates into the language it detected, every target is A or
\* B, and the targets of consecutive runs differ.
C8_PipelineAlternates ==
    \A i \in 1..Len(finalTargets) :
        /\ finalTargets[i].detected = finalTargets[i].input
        /\ finalTargets[i].target # finalTargets[i].detected
        /\ finalTargets[i].target \in {env.GOOGLE_TRANSLATE_LANG, secondLang}
        /\ i > 1 => finalTargets[i].target # finalTargets[i - 1].target

C8_Witness ==
    /\ Len(finalTargets) = 3
    /\ env.GOOGLE_TRANSLATE_LANG = ja
    /\ secondLang = en
    /\ finalTargets[1].input = ja
    /\ finalTargets[1].target = en
    /\ finalTargets[2].target = ja
    /\ finalTargets[3].target = en

\* C9 as stated: the input text is the arguments joined with spaces whenever
\* there are arguments, and standard input only when there are none.
C9_Original ==
    Took("read") =>
        IF Len(args) > 0
        THEN TookOK("read") /\ text = Join(args, Space)
        ELSE TookOK("read") => text = stdin.data

\* C9, amended: the input text is the arguments joined with spaces whenever
\* that is not the empty string, and standard input when there are no
\* arguments or a single empty one.
C9_InputText ==
    Took("read") =>
        IF args = <<>> \/ args = <<Empty>>
        THEN /\ TookOK("read") <=> stdin.ok
             /\ TookOK("read") => text = stdin.data
        ELSE /\ TookOK("read")
             /\ text = Join(args, Space)
             /\ text # Empty

C9_Witness ==
    /\ TookOK("read")
    /\ args = <<Empty>>
    /\ text = <<"y", "o", NL>>

\* The steps the claim orders, and whether a run takes them.
OrderedSteps == {"read", "resolve", "detect", "translate", "write"}
Applies(name) == name # "detect" \/ secondLang # Empty

\* The run so far is a single pass in the order rank gives: every step at most
\* once and after all the steps before it, none after a failed step.
SinglePass(rank) ==
    /\ \A i \in 1..Len(steps) : \A j \in 1..Len(steps) :
           (i < j /\ steps[i].step \in OrderedSteps /\ steps[j].step \in OrderedSteps)
               => rank[steps[i].step] < rank[steps[j].step]
    /\ \A i \in 1..Len(steps) : ~steps[i].ok => i = Len(steps)
    /\ \A i \in 1..Len(steps) : \A name \in OrderedSteps :
           (/\ steps[i].step \in OrderedSteps
            /\ rank[name] < rank[steps[i].step]
            /\ Applies(name))
               => \E j \in 1..(i - 1) : steps[j] = Step(name, TRUE)
    /\ Took("detect") => secondLang # Empty
    /\ Len(detectCalls) <= 1
    /\ Len(translateCalls) <= 1
    /\ Len(stdout) <= 1

\* C10 as stated: read input, resolve target, Detect, Translate, write.
C10_Original ==
    SinglePass([name \in OrderedSteps |->
        CASE name = "read" -> 1
          [] name = "resolve" -> 2
          [] name = "detect" -> 3
          [] name = "translate" -> 4
          [] name = "write" -> 5])

\* C10, amended: resolve target, read input, Detect, Translate, write.
C10_SinglePass ==
    SinglePass([name \in OrderedSteps |->
        CASE name = "resolve" -> 1
          [] name = "read" -> 2
          [] name = "detect" -> 3
          [] name = "translate" -> 4
          [] name = "write" -> 5])

C10_Witness ==
    /\ pc = "done"
    /\ steps = <<Step("resolve", TRUE), Step("read", TRUE), Step("apikey", TRUE),
                 Step("detect", TRUE), Step("translate", TRUE),
                 Step("write", TRUE)>>

====
